---------------------------- MODULE Spec2Model ----------------------------
(***************************************************************************)
(* Model of sl_drv::SensorCapture (src/src/sensorcapture.cpp): the facade  *)
(* (init / reset / destructor), the acquisition worker grabThreadFunc with *)
(* its clock aligner, the four latest-sample cells and the polling getters.*)
(*                                                                         *)
(* Widths.  The device tick counter is 32 bits wide and nanosecond values  *)
(* are uint64_t in the source.  Both are kept as wrapping words here, with *)
(* scaled widths TickBits and U64Bits (TLC integers are 32 bits wide).     *)
(* double arithmetic is modelled by exact rationals <<num, den>>; the      *)
(* conversion double -> uint64_t truncates and is undefined out of range.  *)
(***************************************************************************)
EXTENDS Integers, Sequences, FiniteSets, TLC

\* ----------------------------------------------------------------- bounds
TickBits == 12           \* width of the MCU tick counter in the model (32 in the device)
U64Bits == 22            \* width of a uint64_t in the model
MaxOpens == 2            \* hid_open succeeds at most this many times
MaxSamples == 3          \* full reports the device delivers to one worker (cell specifications)
MaxPollSamples == 2      \* full reports the device delivers (consumer specification)
MaxClockSamples == 5     \* full reports the device delivers (clock specification without sync)
MaxAdjust == 2           \* drift updates after which the device delivers no more reports
MaxIterations == 802     \* loop iterations the observer counts (ping specification)
NumConsumers == 2        \* consumer threads
MaxSyncSamples == 60     \* full reports the device delivers (sync specification)
MaxPasses == 5           \* drift updates after which the device delivers no more reports (window specification)
SpeedUpAt == 10          \* pairs in the buffers when the host clock changes its rate

\* ------------------------------------------------------ program constants
size_max == 50           \* capacity of mSysTsQueue / mMcuTsQueue
PING_INTERVAL == 400     \* iterations between two liveness pings
NTP_ADJUST_CT == 3       \* bootstrap passes of the drift estimator
OFFSET_SAMPLES == 3      \* drift updates per offset re-alignment
FLT_MANT_DIG == 24       \* significand bits of float (static_cast<float>)
TEMP_NOT_VALID == 32767  \* 0x7FFF
OLD_VAL == 0
NEW_VAL == 1
INVALID_VAL == 2

TickMod == 2 ^ TickBits
U64Mod == 2 ^ U64Bits
I64Half == U64Mod \div 2

Modalities == {"IMU", "Mag", "Env", "CamTemp"}
Consumers == 1 .. NumConsumers
Serials == 1 .. 2
Handles == 1 .. MaxOpens
NoSerial == -1

\* ------------------------------------------------------------ arithmetic
Max(a, b) == IF a >= b THEN a ELSE b

RECURSIVE GCD(_, _)
GCD(a, b) == IF b = 0 THEN a ELSE GCD(b, a % b)

\* a * n / d truncated, without forming a * n (a may be as large as U64Mod - 1)
MulDivFloor(a, n, d) == (a \div d) * n + ((a % d) * n) \div d

\* uint64_t arithmetic
U64(x) == x % U64Mod
U64Sub(a, b) == (a - b) % U64Mod
\* static_cast<int64_t>(u): the two's complement reading of a word
ToI64(u) == IF u >= I64Half THEN u - U64Mod ELSE u
\* int64_t division truncates towards zero
I64Div(a, b) == IF a >= 0 THEN a \div b ELSE -((-a) \div b)

\* rationals <<num, den>> with den > 0; NaN is <<0, 0>>
NaN == <<0, 0>>
RNorm(q) ==
    IF q[2] = 0 THEN q
    ELSE LET g == GCD(q[1], q[2]) IN <<q[1] \div g, q[2] \div g>>
RMul(p, q) == IF p = NaN \/ q = NaN THEN NaN ELSE RNorm(<<p[1] * q[1], p[2] * q[2]>>)
RLess(p, q) == p # NaN /\ q # NaN /\ p[1] * q[2] < q[1] * p[2]
RLeq(p, q) == p # NaN /\ q # NaN /\ p[1] * q[2] <= q[1] * p[2]

RECURSIVE RPow(_, _)
RPow(q, k) == IF k = 0 THEN <<1, 1>> ELSE RMul(q, RPow(q, k - 1))

RECURSIVE BitLen(_)
BitLen(n) == IF n = 0 THEN 0 ELSE 1 + BitLen(n \div 2)

\* the float nearest to the non-negative integer n (round half to even)
FloatRnd(n) ==
    IF BitLen(n) <= FLT_MANT_DIG THEN n
    ELSE LET unit == 2 ^ (BitLen(n) - FLT_MANT_DIG)
             q == n \div unit
             r == n % unit
             up == 2 * r > unit \/ (2 * r = unit /\ q % 2 = 1)
         IN  (IF up THEN q + 1 ELSE q) * unit

\* --------------------------------------------------------------- state
VARIABLES
    \* controlling thread: the facade call in progress and its position
    ctl_pc, ctl_op, ctl_arg, ctl_ret,
    \* facade members
    mSlDevPid, mDevHandle, mDevSerial, mInitialized, mStopCapture, mGrabThread,
    \* latest-sample cells, keyed by modality
    mNewData, mLastData, mMutex,
    \* clock aligner members and the function statics of grabThreadFunc
    mFirstImuData, mStartSysTs, mLastMcuTs, mNTPTsScaling, mNTPAdjustedCount,
    mSyncOffset, mLastFrameSyncCount, mSysTsQueue, mMcuTsQueue,
    offset_sum, count, mVideoPtr,
    \* worker thread: position and locals
    w_pc, ping_data_count, rel_mcu_ts, data, current_data_ts,
    \* consumer threads inside getLast*Data
    c_pc, c_mod, c_tmo, time_count, slept, c_ret, c_seen, c_post,
    \* successful polls of each modality since its last publication
    served,
    \* HID library and device
    attached, busy, hidState, hLastReport, devTick, devSyncCount, nSamples,
    \* host clocks and the video collaborator
    hostNow, hostRate,
    \* what an observer of the worker counts: loop iterations begun, pings sent
    iterations, pings

ctlVars == <<ctl_pc, ctl_op, ctl_arg, ctl_ret>>
facadeVars == <<mSlDevPid, mDevHandle, mDevSerial, mInitialized, mGrabThread>>
cellVars == <<mNewData, mLastData, mMutex>>
alignerVars == <<mFirstImuData, mStartSysTs, mLastMcuTs, mNTPTsScaling, mNTPAdjustedCount,
                 mSyncOffset, mLastFrameSyncCount, mSysTsQueue, mMcuTsQueue,
                 offset_sum, count>>
workerVars == <<w_pc, ping_data_count, rel_mcu_ts, data, current_data_ts>>
consVars == <<c_pc, c_mod, c_tmo, time_count, slept, c_ret, c_seen, c_post>>
hidVars == <<attached, busy, hidState, hLastReport>>
devVars == <<devTick, devSyncCount, nSamples, hostNow, hostRate>>
loopVars == <<iterations, pings>>

vars == <<ctlVars, facadeVars, mStopCapture, cellVars, alignerVars, mVideoPtr, workerVars,
          consVars, served, hidVars, devVars, loopVars>>

\* ------------------------------------------------------------- records
\* SensData as read from usbBuf (the fields the worker decides on)
NoData ==
    [res |-> "short", timestamp |-> 0, imu_not_valid |-> 1, frame_sync |-> 0, frame_sync_count |-> 0,
     sync_capabilities |-> 0, mag_valid |-> OLD_VAL, env_valid |-> OLD_VAL,
     temp_cam_left |-> 0, temp_cam_right |-> 0]

\* the published records as constructed (valid false / not present, timestamp 0)
InitLastData ==
    [m \in Modalities |->
        CASE m = "IMU" -> [valid |-> FALSE, timestamp |-> 0, sync |-> 0]
          [] m = "Mag" -> [valid |-> OLD_VAL, timestamp |-> 0]
          [] m = "Env" -> [valid |-> OLD_VAL, timestamp |-> 0]
          [] OTHER -> [valid |-> FALSE, timestamp |-> 0, temp_left |-> 0, temp_right |-> 0]]

\* host nanoseconds elapsed per device sample period
TickStep == 2 ^ 4
HostStart == 2 ^ 18
HostSteps == {375, 625, 700, 1250}

\* the state after construction, for a given environment
InitWith(att, bsy, tick, rate) ==
    /\ ctl_pc = "idle" /\ ctl_op = "none" /\ ctl_arg = NoSerial /\ ctl_ret = "none"
    /\ mSlDevPid = <<>> /\ mDevHandle = 0 /\ mDevSerial = NoSerial
    /\ mInitialized = FALSE /\ mStopCapture = FALSE /\ mGrabThread = FALSE
    /\ mNewData = [m \in Modalities |-> FALSE]
    /\ mLastData = InitLastData
    /\ mMutex = [m \in Modalities |-> "free"]
    /\ mFirstImuData = FALSE /\ mStartSysTs = 0 /\ mLastMcuTs = 0
    /\ mNTPTsScaling = <<1, 1>> /\ mNTPAdjustedCount = 0
    /\ mSyncOffset = 0 /\ mLastFrameSyncCount = 0
    /\ mSysTsQueue = <<>> /\ mMcuTsQueue = <<>>
    /\ offset_sum = 0 /\ count = 0 /\ mVideoPtr = FALSE
    /\ w_pc = "none" /\ ping_data_count = 0 /\ rel_mcu_ts = 0
    /\ data = NoData /\ current_data_ts = 0
    /\ c_pc = [c \in Consumers |-> "idle"]
    /\ c_mod = [c \in Consumers |-> "IMU"]
    /\ c_tmo = [c \in Consumers |-> 0]
    /\ time_count = [c \in Consumers |-> 0]
    /\ slept = [c \in Consumers |-> 0]
    /\ c_seen = [c \in Consumers |-> InitLastData["IMU"]]
    /\ c_ret = [c \in Consumers |-> "none"]
    /\ c_post = [c \in Consumers |-> FALSE]
    /\ served = [m \in Modalities |-> 0]
    /\ attached = att /\ busy = bsy
    /\ hidState = [h \in Handles |-> [st |-> "free", sn |-> NoSerial, mode |-> "default"]]
    /\ hLastReport = [h \in Handles |-> "none"]
    /\ devTick = tick /\ devSyncCount = 0 /\ nSamples = 0
    /\ hostNow = HostStart /\ hostRate = rate
    /\ iterations = 0 /\ pings = 0

\* the process is running: std::terminate was not called and no thread crashed
Alive == ctl_pc # "terminated" /\ w_pc # "crashed"

\* the worker thread has started and has not left grabThreadFunc
WorkerRunning == w_pc \notin {"none", "exited"}

\* ------------------------------------------------------------ HID library
\* product id of an attached device, as hid_enumerate reports it
PidOf(sn) == 100 + sn

\* enumerateDevices: the serial -> pid map of the attached devices
enumerateDevices == [sn \in attached |-> PidOf(sn)]

\* std::map::operator[]: the map after a lookup of key k (a missing key is inserted, value 0)
MapIndex(map, k) ==
    IF k \in DOMAIN map THEN map
    ELSE [x \in DOMAIN map \cup {k} |-> IF x = k THEN 0 ELSE map[x]]

\* mSlDevPid.begin()->first: the lowest key
MapBeginKey(map) == CHOOSE k \in DOMAIN map : \A x \in DOMAIN map : k <= x

\* hid_open(vendor, pid, serial) finds a device: pid 0 matches every product
hid_open_ok(pid, sn) ==
    /\ sn \in attached
    /\ sn \notin busy
    /\ (pid = 0 \/ pid = PidOf(sn))

\* a handle the library has not handed out yet
FreshHandle == CHOOSE h \in Handles : hidState[h].st = "free" /\ \A g \in Handles : hidState[g].st = "free" => h <= g

\* ------------------------------------------------------- controlling thread
\* SensorCapture::init up to and including hid_open
InitOpen(sn) ==
    /\ Alive
    /\ ctl_pc = "idle"
    /\ \E h \in Handles : hidState[h].st = "free"
    /\ ctl_op' = "init" /\ ctl_arg' = sn
    /\ c_post' = [c \in Consumers |-> FALSE]
    /\ LET map1 == IF DOMAIN mSlDevPid = {} THEN enumerateDevices ELSE mSlDevPid
           noDev == sn = NoSerial /\ DOMAIN map1 = {}
           key == IF sn # NoSerial THEN sn ELSE MapBeginKey(map1)
           map2 == MapIndex(map1, key)
       IN  IF noDev
           THEN /\ mSlDevPid' = map1
                /\ ctl_ret' = FALSE /\ ctl_pc' = "idle"
                /\ UNCHANGED <<mDevHandle, mDevSerial, hidState>>
           ELSE /\ mSlDevPid' = map2
                /\ IF hid_open_ok(map2[key], key)
                   THEN /\ mDevHandle' = FreshHandle
                        /\ hidState' = [hidState EXCEPT ![FreshHandle] =
                                            [st |-> "open", sn |-> key, mode |-> "default"]]
                        /\ mDevSerial' = key
                        /\ ctl_ret' = "none" /\ ctl_pc' = "init_start"
                   ELSE /\ mDevHandle' = 0
                        /\ mDevSerial' = NoSerial
                        /\ ctl_ret' = FALSE /\ ctl_pc' = "idle"
                        /\ UNCHANGED hidState
    /\ UNCHANGED <<mInitialized, mGrabThread, mStopCapture, cellVars, alignerVars, mVideoPtr,
                   workerVars, c_pc, c_mod, c_tmo, time_count, slept, c_ret, c_seen,
                   served, attached, busy,
                   hLastReport, devVars, loopVars>>

\* SensorCapture::enableDataStream: the feature report [0x02, enable] on mDevHandle
enableDataStream(enable) ==
    IF mDevHandle = 0 THEN hLastReport
    ELSE [hLastReport EXCEPT ![mDevHandle] = IF enable THEN "enable" ELSE "disable"]

\* the rest of init: mInitialized = startCapture(); return true
\* (ok: hid_send_feature_report succeeded)
StartCapture(ok) ==
    /\ Alive
    /\ ctl_pc = "init_start"
    /\ hLastReport' = enableDataStream(TRUE)
    /\ IF ~ok
       THEN /\ mInitialized' = FALSE
            /\ ctl_ret' = TRUE /\ ctl_pc' = "idle"
            /\ UNCHANGED <<mGrabThread, w_pc>>
       ELSE IF mGrabThread
            \* assigning to a joinable std::thread calls std::terminate
            THEN /\ ctl_pc' = "terminated"
                 /\ UNCHANGED <<mInitialized, ctl_ret, mGrabThread, w_pc>>
            ELSE /\ mGrabThread' = TRUE
                 /\ w_pc' = "start"
                 /\ mInitialized' = TRUE
                 /\ ctl_ret' = TRUE /\ ctl_pc' = "idle"
    /\ UNCHANGED <<ctl_op, ctl_arg, mSlDevPid, mDevHandle, mDevSerial, mStopCapture, cellVars,
                   alignerVars, mVideoPtr, ping_data_count, rel_mcu_ts, data, current_data_ts,
                   consVars, served, attached, busy, hidState, devVars, loopVars>>

\* SensorCapture::reset, line 247 (op: "reset", or "dtor" for the destructor's call)
ResetStop(op) ==
    /\ Alive
    /\ ctl_pc = "idle"
    /\ ctl_op' = op /\ ctl_arg' = NoSerial /\ ctl_ret' = "none"
    /\ ctl_pc' = "reset_join"
    /\ mStopCapture' = TRUE
    /\ UNCHANGED <<facadeVars, cellVars, alignerVars, mVideoPtr, workerVars, consVars, served,
                   hidVars, devVars, loopVars>>

\* reset, lines 249-252: join blocks until the worker has left grabThreadFunc
ResetJoin ==
    /\ Alive
    /\ ctl_pc = "reset_join"
    /\ IF mGrabThread
       THEN /\ w_pc = "exited"
            /\ w_pc' = "none"
            /\ mGrabThread' = FALSE
       ELSE UNCHANGED <<w_pc, mGrabThread>>
    /\ ctl_pc' = "reset_disable"
    /\ UNCHANGED <<ctl_op, ctl_arg, ctl_ret, mSlDevPid, mDevHandle, mDevSerial, mInitialized,
                   mStopCapture, cellVars, alignerVars, mVideoPtr, ping_data_count, rel_mcu_ts,
                   data, current_data_ts, consVars, served, hidVars, devVars, loopVars>>

\* reset, line 254: enableDataStream(false)
ResetDisable ==
    /\ Alive
    /\ ctl_pc = "reset_disable"
    /\ hLastReport' = enableDataStream(FALSE)
    /\ ctl_pc' = "reset_close"
    /\ UNCHANGED <<ctl_op, ctl_arg, ctl_ret, facadeVars, mStopCapture, cellVars, alignerVars,
                   mVideoPtr, workerVars, consVars, served, attached, busy, hidState, devVars, loopVars>>

\* reset, lines 256-267: hid_close, mDevHandle = nullptr, mInitialized = false
ResetClose ==
    /\ Alive
    /\ ctl_pc = "reset_close"
    /\ IF mDevHandle # 0
       THEN /\ hidState' = [hidState EXCEPT ![mDevHandle].st = "closed"]
            /\ mDevHandle' = 0
       ELSE UNCHANGED <<hidState, mDevHandle>>
    /\ mInitialized' = FALSE
    /\ ctl_pc' = IF ctl_op = "dtor" THEN "destroyed" ELSE "idle"
    /\ UNCHANGED <<ctl_op, ctl_arg, ctl_ret, mSlDevPid, mDevSerial, mGrabThread, mStopCapture,
                   cellVars, alignerVars, mVideoPtr, workerVars, consVars, served, attached,
                   busy, hLastReport, devVars, loopVars>>

\* ----------------------------------------------------------- clock aligner
\* line 335: static_cast<uint64_t>(std::round(static_cast<float>(timestamp) * TS_SCALE)),
\* TS_SCALE = 39.0625 = 625 / 16; the product is rounded to float in units of 1/16
McuTsNsec(tick) == (FloatRnd(FloatRnd(tick) * 625) + 8) \div 16

\* what an out-of-range conversion double -> uint64_t can produce
UBCast == {0, I64Half, U64Mod - 1}

\* line 353 without the multiplication by mNTPTsScaling
UnscaledDelta(delta, scale) == {delta}

\* line 353: static_cast<uint64_t>(static_cast<double>(delta) * mNTPTsScaling)
ScaledDelta(delta, scale) ==
    IF scale = NaN THEN UBCast
    ELSE LET v == MulDivFloor(delta, scale[1], scale[2])
         IN  IF v < U64Mod THEN {v} ELSE UBCast

\* the quotient of line 389 without the clamp of lines 391-392
UnclampedScale(dh, dm) ==
    IF dm = 0 THEN (IF dh = 0 THEN NaN ELSE <<6, 5>>)
    ELSE RNorm(<<dh, dm>>)

\* lines 389-392: double(dh) / double(dm), clamped to [0.8, 1.2]
ClampedScale(dh, dm) ==
    IF dm = 0 THEN (IF dh = 0 THEN NaN ELSE <<6, 5>>)
    ELSE IF dh * 5 > dm * 6 THEN <<6, 5>>
    ELSE IF dh * 5 < dm * 4 THEN <<4, 5>>
    ELSE RNorm(<<dh, dm>>)

\* line 395: mNTPTsScaling *= scale
ScaleUpdate(ntp, scale) == RMul(ntp, scale)

\* lines 380-383 without the switch after the bootstrap passes
first_index_bootstrap == size_max \div 2

\* lines 380-383: the index of the first pair used by a drift update
first_index == IF mNTPAdjustedCount <= NTP_ADJUST_CT THEN size_max \div 2 ELSE 5

\* line 361 without the test of mLastFrameSyncCount
SyncEdgeAnyCount(s) ==
    s.frame_sync # 0 \/ s.frame_sync_count > mLastFrameSyncCount

\* line 361: the sample is a sync edge
SyncEdge(s) ==
    /\ mLastFrameSyncCount # 0
    /\ (s.frame_sync # 0 \/ s.frame_sync_count > mLastFrameSyncCount)

getSysTs == hostNow
getSteadyTs == hostNow

\* lines 358-421 with mNTPAdjustedCount++ moved out of the test of line 377
SyncUpdateCountsEveryPair(s, cur, vts) ==
    IF s.sync_capabilities # 0 /\ SyncEdge(s)
    THEN LET sysQ == Append(mSysTsQueue, getSteadyTs')
             mcuQ == Append(mMcuTsQueue, cur)
         IN  /\ mNTPAdjustedCount' = mNTPAdjustedCount + 1
             /\ IF Len(sysQ) = size_max /\ Len(mcuQ) = size_max
                THEN /\ mSysTsQueue' = <<>> /\ mMcuTsQueue' = <<>>
                     /\ UNCHANGED <<mNTPTsScaling, offset_sum, count, mSyncOffset>>
                ELSE /\ mSysTsQueue' = sysQ /\ mMcuTsQueue' = mcuQ
                     /\ UNCHANGED <<mNTPTsScaling, offset_sum, count, mSyncOffset>>
    ELSE UNCHANGED <<mNTPTsScaling, mNTPAdjustedCount, offset_sum, count, mSyncOffset,
                     mSysTsQueue, mMcuTsQueue>>

\* lines 358-421 for sample s published at cur; vts is mVideoPtr->mLastFrame.timestamp
SyncUpdate(s, cur, vts) ==
    IF s.sync_capabilities # 0 /\ SyncEdge(s)
    THEN LET sysQ == Append(mSysTsQueue, getSteadyTs')
             mcuQ == Append(mMcuTsQueue, cur)
         IN  IF Len(sysQ) = size_max /\ Len(mcuQ) = size_max
             THEN LET dh == U64Sub(sysQ[size_max], sysQ[first_index + 1])
                      dm == U64Sub(mcuQ[size_max], mcuQ[first_index + 1])
                      sum == offset_sum + (ToI64(cur) - ToI64(vts))
                      third == count + 1 = OFFSET_SAMPLES
                  IN  /\ mNTPTsScaling' = ScaleUpdate(mNTPTsScaling, ClampedScale(dh, dm))
                      /\ mSysTsQueue' = <<>> /\ mMcuTsQueue' = <<>>
                      /\ mNTPAdjustedCount' = mNTPAdjustedCount + 1
                      /\ offset_sum' = IF third THEN 0 ELSE sum
                      /\ count' = IF third THEN 0 ELSE count + 1
                      /\ mSyncOffset' = IF third
                                        THEN mSyncOffset + I64Div(sum, OFFSET_SAMPLES)
                                        ELSE mSyncOffset
             ELSE /\ mSysTsQueue' = sysQ /\ mMcuTsQueue' = mcuQ
                  /\ UNCHANGED <<mNTPTsScaling, mNTPAdjustedCount, offset_sum, count, mSyncOffset>>
    ELSE UNCHANGED <<mNTPTsScaling, mNTPAdjustedCount, offset_sum, count, mSyncOffset,
                     mSysTsQueue, mMcuTsQueue>>

\* the iteration reaches line 404 and dereferences mVideoPtr
ReadsVideo(s) ==
    /\ s.sync_capabilities # 0 /\ SyncEdge(s)
    /\ Len(mSysTsQueue) = size_max - 1 /\ Len(mMcuTsQueue) = size_max - 1

\* ------------------------------------------------------------------ worker
\* lines 272-291 as if offset_sum and count were locals of grabThreadFunc
GrabStartZeroesOffsetSum ==
    /\ Alive
    /\ w_pc = "start"
    /\ mStopCapture' = FALSE
    /\ mNewData' = [m \in Modalities |-> FALSE]
    /\ ping_data_count' = 0
    /\ mFirstImuData' = TRUE
    /\ rel_mcu_ts' = 0
    /\ offset_sum' = 0 /\ count' = 0
    /\ w_pc' = "loop"
    /\ UNCHANGED <<ctlVars, facadeVars, mLastData, mMutex, mStartSysTs, mLastMcuTs,
                   mNTPTsScaling, mNTPAdjustedCount, mSyncOffset, mLastFrameSyncCount,
                   mSysTsQueue, mMcuTsQueue, mVideoPtr, data,
                   current_data_ts, consVars, served, hidVars, devVars, loopVars>>

\* grabThreadFunc, lines 272-291
GrabStart ==
    /\ Alive
    /\ w_pc = "start"
    /\ mStopCapture' = FALSE
    /\ mNewData' = [m \in Modalities |-> FALSE]
    /\ ping_data_count' = 0
    /\ mFirstImuData' = TRUE
    /\ rel_mcu_ts' = 0
    /\ w_pc' = "loop"
    /\ UNCHANGED <<ctlVars, facadeVars, mLastData, mMutex, mStartSysTs, mLastMcuTs,
                   mNTPTsScaling, mNTPAdjustedCount, mSyncOffset, mLastFrameSyncCount,
                   mSysTsQueue, mMcuTsQueue, offset_sum, count, mVideoPtr, data,
                   current_data_ts, consVars, served, hidVars, devVars, loopVars>>

\* SensorCapture::sendPing: the feature report [0x21, 0xF2] on mDevHandle
sendPing ==
    IF mDevHandle = 0 THEN hLastReport
    ELSE [hLastReport EXCEPT ![mDevHandle] = "ping"]

\* a ping that is due one iteration late
PingDueLate == ping_data_count > PING_INTERVAL

\* line 298: the keep-alive ping is due
PingDue == ping_data_count >= PING_INTERVAL

\* lines 293-305: the loop test and the keep-alive block
GrabLoopBody ==
    /\ Alive
    /\ w_pc = "loop"
    /\ IF mStopCapture
       THEN /\ w_pc' = "exited"
            /\ UNCHANGED <<ping_data_count, hLastReport>>
       ELSE /\ w_pc' = "read"
            /\ IF PingDue
               THEN /\ ping_data_count' = 1
                    /\ hLastReport' = sendPing
               ELSE /\ ping_data_count' = ping_data_count + 1
                    /\ UNCHANGED hLastReport
    /\ UNCHANGED <<ctlVars, facadeVars, mStopCapture, cellVars, alignerVars, mVideoPtr,
                   rel_mcu_ts, data, current_data_ts, consVars, served, attached, busy,
                   hidState, devVars>>

\* one pass through lines 293-305
GrabLoop == GrabLoopBody /\ UNCHANGED loopVars

\* the same pass with its observer: iterations begun and pings sent so far
GrabLoopObserved ==
    /\ GrabLoopBody
    /\ IF mStopCapture
       THEN UNCHANGED loopVars
       ELSE /\ iterations' = iterations + 1
            /\ pings' = IF PingDue THEN pings + 1 ELSE pings

\* the device after delivering sample s: the tick counter runs on and wraps
DeviceAdvance(s) ==
    /\ devTick' = (devTick + TickStep) % TickMod
    /\ devSyncCount' = s.frame_sync_count
    /\ nSamples' = nSamples + 1
    /\ hostNow' = hostNow + hostRate
    /\ hostRate' = hostRate

\* hidapi: hid_set_nonblocking(dev, nonblock) selects the read mode of the handle
hid_set_nonblocking(h, nonblock) ==
    [hidState EXCEPT ![h].mode = IF nonblock = 0 THEN "blocking" ELSE "nonblocking"]

\* the bad-read branches of lines 310-327 without the calls of lines 313 and 326
GrabReadBadKeepsMode(s) ==
    /\ Alive
    /\ w_pc = "read"
    /\ s.res # "ok"
    /\ w_pc' = IF mDevHandle = 0 THEN "crashed" ELSE "loop"
    /\ UNCHANGED <<ctlVars, facadeVars, mStopCapture, cellVars, alignerVars, mVideoPtr,
                   ping_data_count, rel_mcu_ts, data, current_data_ts, consVars, served,
                   hidVars, devVars, loopVars>>

\* lines 307-329: hid_read_timeout returned less than a full report, or a wrong report id
GrabReadBad(s) ==
    /\ Alive
    /\ w_pc = "read"
    /\ s.res # "ok"
    /\ IF mDevHandle = 0
       THEN \* hid_read_timeout on a null handle
            /\ w_pc' = "crashed"
            /\ UNCHANGED hidState
       ELSE /\ hidState' = hid_set_nonblocking(mDevHandle, 0)
            /\ w_pc' = "loop"
    /\ UNCHANGED <<ctlVars, facadeVars, mStopCapture, cellVars, alignerVars, mVideoPtr,
                   ping_data_count, rel_mcu_ts, data, current_data_ts, consVars, served,
                   attached, busy, hLastReport, devVars, loopVars>>

\* lines 307-422 for a full report s: bootstrap, or timestamp update and synchronization
\* (vts: the video collaborator's last frame timestamp, read at line 404)
GrabRead(s, vts) ==
    /\ Alive
    /\ w_pc = "read"
    /\ s.res = "ok"
    /\ IF mDevHandle = 0
       THEN \* hid_read_timeout on a null handle
            /\ w_pc' = "crashed"
            /\ UNCHANGED <<alignerVars, rel_mcu_ts, data, current_data_ts, devVars>>
       ELSE /\ DeviceAdvance(s)
            /\ data' = s
            /\ LET mcu_ts_nsec == McuTsNsec(s.timestamp)
               IN  IF mFirstImuData /\ s.imu_not_valid # 1
                   THEN /\ mStartSysTs' = getSysTs'
                        /\ mLastMcuTs' = mcu_ts_nsec
                        /\ mFirstImuData' = FALSE
                        /\ w_pc' = "loop"
                        /\ UNCHANGED <<mNTPTsScaling, mNTPAdjustedCount, mSyncOffset,
                                       mLastFrameSyncCount, mSysTsQueue, mMcuTsQueue,
                                       offset_sum, count, rel_mcu_ts, current_data_ts>>
                   ELSE \E inc \in ScaledDelta(U64Sub(mcu_ts_nsec, mLastMcuTs), mNTPTsScaling) :
                        LET rel == U64(rel_mcu_ts + inc)
                            cur == U64((mStartSysTs - mSyncOffset) + rel)
                        IN  /\ mLastMcuTs' = mcu_ts_nsec
                            /\ rel_mcu_ts' = rel
                            /\ current_data_ts' = cur
                            /\ UNCHANGED <<mFirstImuData, mStartSysTs>>
                            /\ IF ReadsVideo(s) /\ ~mVideoPtr
                               THEN \* null pointer dereference at line 404
                                    /\ w_pc' = "crashed"
                                    /\ UNCHANGED <<mNTPTsScaling, mNTPAdjustedCount, mSyncOffset,
                                                   mLastFrameSyncCount, mSysTsQueue, mMcuTsQueue,
                                                   offset_sum, count>>
                               ELSE /\ SyncUpdate(s, cur, vts)
                                    /\ mLastFrameSyncCount' = s.frame_sync_count
                                    /\ w_pc' = "imu"
    /\ UNCHANGED <<ctlVars, facadeVars, mStopCapture, cellVars, mVideoPtr, ping_data_count,
                   consVars, served, hidVars, loopVars>>

\* the worker's steps that touch no aligner state
PublishFrame ==
    UNCHANGED <<ctlVars, facadeVars, mStopCapture, alignerVars, mVideoPtr, ping_data_count,
                rel_mcu_ts, data, current_data_ts, consVars, hidVars, devVars, loopVars>>

\* line 425 (and 446, 467, 498): mutex lock
GrabLock(at, m, next) ==
    /\ Alive
    /\ w_pc = at
    /\ mMutex[m] = "free"
    /\ mMutex' = [mMutex EXCEPT ![m] = "worker"]
    /\ w_pc' = next
    /\ UNCHANGED <<mNewData, mLastData, served>>
    /\ PublishFrame

\* the stores made under the lock of modality m, the fresh flag and the unlock
GrabPublish(at, m, rec, next) ==
    /\ Alive
    /\ w_pc = at
    /\ mLastData' = [mLastData EXCEPT ![m] = rec]
    /\ mNewData' = [mNewData EXCEPT ![m] = TRUE]
    /\ mMutex' = [mMutex EXCEPT ![m] = "free"]
    /\ served' = [served EXCEPT ![m] = 0]
    /\ w_pc' = next
    /\ PublishFrame

\* a store to one field of a record made without its lock (lines 460, 489, 511)
GrabStoreValid(at, m, v, next) ==
    /\ Alive
    /\ w_pc = at
    /\ mLastData' = [mLastData EXCEPT ![m].valid = v]
    /\ w_pc' = next
    /\ UNCHANGED <<mNewData, mMutex, served>>
    /\ PublishFrame

\* lines 426-428: the IMU record of the current sample
ImuRecord == [valid |-> data.imu_not_valid # 1, timestamp |-> current_data_ts,
              sync |-> data.frame_sync]

\* lines 460 and 489: a MagStatus stored into the bool mLastIMUData.valid
MagStatusAsBool == data.mag_valid # 0

\* lines 494-496: the condition under which the camera temperatures are published
CamTempPublishes ==
    /\ data.temp_cam_left # TEMP_NOT_VALID
    /\ data.temp_cam_left # TEMP_NOT_VALID
    /\ data.env_valid = NEW_VAL

\* lines 424-437
GrabImuLock == GrabLock("imu", "IMU", "imu_pub")
GrabImuPub == GrabPublish("imu_pub", "IMU", ImuRecord, "mag")

\* lines 443-462
GrabMagLock == data.mag_valid = NEW_VAL /\ GrabLock("mag", "Mag", "mag_pub")
GrabMagPub ==
    GrabPublish("mag_pub", "Mag", [valid |-> NEW_VAL, timestamp |-> current_data_ts], "env")
GrabMagElse == data.mag_valid # NEW_VAL /\ GrabStoreValid("mag", "IMU", MagStatusAsBool, "env")

\* the environmental branch taken whatever env_valid is
GrabEnvLockAlways == GrabLock("env", "Env", "env_pub")

\* lines 464-491
GrabEnvLock == data.env_valid = NEW_VAL /\ GrabLock("env", "Env", "env_pub")
GrabEnvPub ==
    GrabPublish("env_pub", "Env", [valid |-> NEW_VAL, timestamp |-> current_data_ts], "cam")
GrabEnvElse == data.env_valid # NEW_VAL /\ GrabStoreValid("env", "IMU", MagStatusAsBool, "cam")

\* lines 493-513
GrabCamLock == CamTempPublishes /\ GrabLock("cam", "CamTemp", "cam_pub")
GrabCamPub ==
    GrabPublish("cam_pub", "CamTemp",
                [valid |-> TRUE, timestamp |-> current_data_ts,
                 temp_left |-> data.temp_cam_left, temp_right |-> data.temp_cam_right],
                "loop")
GrabCamElse == ~CamTempPublishes /\ GrabStoreValid("cam", "CamTemp", FALSE, "loop")

\* -------------------------------------------------------------- consumers
\* the sleep granularity of getLast*Data in microseconds (usleep(100) / usleep(10))
Granularity(m) == IF m = "IMU" THEN 100 ELSE 10

\* lines 544, 565, 586, 607: the number of sleeps allowed
TimeCount(m, timeout_usec) ==
    (IF timeout_usec < 100 THEN 100 ELSE timeout_usec) \div Granularity(m)

\* reset() has returned and no init() has been called since
PostReset == ctl_pc = "idle" /\ ctl_op = "reset"

\* getLast*Data is entered
PollCall(c, m, timeout_usec) ==
    /\ Alive
    /\ ctl_pc # "destroyed"
    /\ c_pc[c] = "idle"
    /\ c_pc' = [c_pc EXCEPT ![c] = "wait"]
    /\ c_mod' = [c_mod EXCEPT ![c] = m]
    /\ c_tmo' = [c_tmo EXCEPT ![c] = timeout_usec]
    /\ time_count' = [time_count EXCEPT ![c] = TimeCount(m, timeout_usec)]
    /\ slept' = [slept EXCEPT ![c] = 0]
    /\ c_ret' = [c_ret EXCEPT ![c] = "none"]
    /\ c_post' = [c_post EXCEPT ![c] = PostReset]
    /\ UNCHANGED <<c_seen, ctlVars, facadeVars, mStopCapture, cellVars, alignerVars, mVideoPtr,
                   workerVars, served, hidVars, devVars, loopVars>>

\* one test of the wait loop (lines 545-553): leave it, return nullptr, or sleep
PollWait(c) ==
    /\ Alive
    /\ c_pc[c] = "wait"
    /\ IF mNewData[c_mod[c]]
       THEN /\ c_pc' = [c_pc EXCEPT ![c] = "take"]
            /\ UNCHANGED <<time_count, slept, c_ret>>
       ELSE IF time_count[c] = 0
            THEN /\ c_pc' = [c_pc EXCEPT ![c] = "idle"]
                 /\ c_ret' = [c_ret EXCEPT ![c] = "null"]
                 /\ UNCHANGED <<time_count, slept>>
            ELSE /\ time_count' = [time_count EXCEPT ![c] = time_count[c] - 1]
                 /\ slept' = [slept EXCEPT ![c] = slept[c] + Granularity(c_mod[c])]
                 /\ UNCHANGED <<c_pc, c_ret>>
    /\ UNCHANGED <<ctlVars, facadeVars, mStopCapture, cellVars, alignerVars, mVideoPtr,
                   workerVars, c_mod, c_tmo, c_seen, c_post, served, hidVars, devVars, loopVars>>

\* a getter that clears the fresh flags of all four cells
ClearAllFlags(m) == [k \in Modalities |-> FALSE]

\* line 558 (579, 600, 621): mNew<M>Data = false
ClearFlag(m) == [mNewData EXCEPT ![m] = FALSE]

\* lines 556-559: lock_guard, clear the flag, return the address of the record
PollTake(c) ==
    /\ Alive
    /\ c_pc[c] = "take"
    /\ mMutex[c_mod[c]] = "free"
    /\ mNewData' = ClearFlag(c_mod[c])
    /\ c_ret' = [c_ret EXCEPT ![c] = "ptr"]
    /\ c_seen' = [c_seen EXCEPT ![c] = mLastData[c_mod[c]]]
    /\ c_pc' = [c_pc EXCEPT ![c] = "idle"]
    /\ served' = [served EXCEPT ![c_mod[c]] = IF @ < 2 THEN @ + 1 ELSE @]
    /\ UNCHANGED <<ctlVars, facadeVars, mStopCapture, mLastData, mMutex, alignerVars,
                   mVideoPtr, workerVars, c_mod, c_tmo, time_count, slept, c_post, hidVars,
                   devVars, loopVars>>

\* the sync handshake: the video collaborator installs its reference
EnableSync ==
    /\ Alive
    /\ ctl_pc = "idle"
    /\ ~mVideoPtr
    /\ mVideoPtr' = TRUE
    /\ UNCHANGED <<ctlVars, facadeVars, mStopCapture, cellVars, alignerVars, workerVars,
                   consVars, served, hidVars, devVars, loopVars>>

\* ------------------------------------------------------------ device input
\* what hid_read_timeout leaves in usbBuf: a full report built from the device state
Report(inv, sc, fs, mag, env, tl, tr) ==
    [res |-> "ok", timestamp |-> devTick, imu_not_valid |-> inv,
     frame_sync |-> fs, frame_sync_count |-> devSyncCount + fs,
     sync_capabilities |-> sc, mag_valid |-> mag, env_valid |-> env,
     temp_cam_left |-> tl, temp_cam_right |-> tr]

\* a timeout, an error or a short read; a full read with a wrong report id
ShortRead == [NoData EXCEPT !.res = "short"]
BadIdRead == [NoData EXCEPT !.res = "badid"]

TempOk == 25
CamTemps == {<<TempOk, TempOk>>, <<TempOk, TEMP_NOT_VALID>>, <<TEMP_NOT_VALID, TempOk>>}

\* reports of a device without sync capabilities, every validity combination
CellReports ==
    {Report(inv, 0, 0, mag, env, t[1], t[2]) :
        inv \in {0, 1}, mag \in {OLD_VAL, NEW_VAL, INVALID_VAL}, env \in {OLD_VAL, NEW_VAL},
        t \in CamTemps}

\* ------------------------------------------------- the facade specification
\* init / reset / destructor in every order, against a worker that reads no full report
Controller ==
    \/ \E sn \in Serials \cup {NoSerial} : InitOpen(sn)
    \/ \E ok \in BOOLEAN : StartCapture(ok)
    \/ \E op \in {"reset", "dtor"} : ResetStop(op)
    \/ ResetJoin
    \/ ResetDisable
    \/ ResetClose

IdleWorker ==
    \/ GrabStart
    \/ GrabLoop
    \/ \E s \in {ShortRead, BadIdRead} : GrabReadBad(s)

LifeInit == \E att \in SUBSET Serials : \E bsy \in SUBSET att : InitWith(att, bsy, 0, 625)

LifeNext == Controller \/ IdleWorker

LifeSpec == LifeInit /\ [][LifeNext]_vars

\* ------------------------------------------ the fair facade specification
\* one device, and init() only while no worker exists; the worker thread and a reset()
\* in progress are scheduled fairly, and every HID read returns
FairInit == InitWith({1}, {}, 0, 625)

FairController ==
    \/ w_pc = "none" /\ InitOpen(NoSerial)
    \/ \E ok \in BOOLEAN : StartCapture(ok)
    \/ ResetStop("reset")
    \/ ResetJoin
    \/ ResetDisable
    \/ ResetClose

ResetProgress == ResetJoin \/ ResetDisable \/ ResetClose

FairNext == FairController \/ IdleWorker

FairSpec ==
    /\ FairInit
    /\ [][FairNext]_vars
    /\ WF_vars(IdleWorker)
    /\ WF_vars(ResetProgress)

\* the publishing steps of one loop iteration, lines 424-513
Publisher ==
    \/ GrabImuLock \/ GrabImuPub
    \/ GrabMagLock \/ GrabMagPub \/ GrabMagElse
    \/ GrabEnvLock \/ GrabEnvPub \/ GrabEnvElse
    \/ GrabCamLock \/ GrabCamPub \/ GrabCamElse

\* -------------------------------------------- the publication specification
\* one init() on one device, then the worker alone, over every validity combination
PubInit == InitWith({1}, {}, 0, 625)

PubNext ==
    \/ ctl_op = "none" /\ InitOpen(NoSerial)
    \/ StartCapture(TRUE)
    \/ GrabStart
    \/ GrabLoop
    \/ nSamples < MaxSamples /\ \E s \in CellReports : GrabRead(s, 0)
    \/ Publisher

PubSpec == PubInit /\ [][PubNext]_vars

\* ------------------------------------------------ the polling specification
\* init() / reset() cycles on one device, the worker, and the consumer threads
PollInit == InitWith({1}, {}, 0, 625)

PollReports ==
    {Report(0, 0, 0, NEW_VAL, NEW_VAL, TempOk, TempOk),
     Report(0, 0, 0, INVALID_VAL, OLD_VAL, TempOk, TempOk)}

PollNext ==
    \/ w_pc = "none" /\ InitOpen(NoSerial)
    \/ StartCapture(TRUE)
    \/ ResetStop("reset")
    \/ ResetJoin
    \/ ResetDisable
    \/ ResetClose
    \/ GrabStart
    \/ GrabLoop
    \/ nSamples < MaxPollSamples /\ \E s \in PollReports : GrabRead(s, 0)
    \/ Publisher
    \/ \E c \in Consumers, m \in {"IMU", "CamTemp"} : PollCall(c, m, 0)
    \/ \E c \in Consumers : PollWait(c)
    \/ \E c \in Consumers : PollTake(c)

PollSpec == PollInit /\ [][PollNext]_vars

\* -------------------------------------------------- the clock specification
\* one worker on a device without sync capabilities whose tick counter starts at zero or
\* two samples before it wraps
ClockInit == \E tick \in {0, TickMod - 2 * TickStep} : InitWith({1}, {}, tick, 625)

ClockReports == {Report(0, 0, 0, OLD_VAL, OLD_VAL, TempOk, TempOk)}

ClockNext ==
    \/ ctl_op = "none" /\ InitOpen(NoSerial)
    \/ StartCapture(TRUE)
    \/ GrabStart
    \/ GrabLoop
    \/ \E s \in {ShortRead, BadIdRead} : GrabReadBad(s)
    \/ nSamples < MaxClockSamples /\ \E s \in ClockReports : GrabRead(s, 0)
    \/ GrabImuLock \/ GrabImuPub
    \/ GrabMagElse \/ GrabEnvElse \/ GrabCamElse

ClockSpec == ClockInit /\ [][ClockNext]_vars

\* -------------------------------------------------- the drift specification
\* one worker on a device with sync capabilities that flags a frame sync edge on every
\* sample; the host clock advances by one of HostSteps per sample (the MCU by 625)
DriftInit == \E rate \in HostSteps : InitWith({1}, {}, 0, rate)

DriftReports == {Report(0, 1, 1, OLD_VAL, OLD_VAL, TempOk, TempOk)}

DriftNext ==
    \/ ctl_op = "none" /\ InitOpen(NoSerial)
    \/ StartCapture(TRUE)
    \/ EnableSync
    \/ GrabStart
    \/ GrabLoop
    \/ mNTPAdjustedCount < MaxAdjust /\ \E s \in DriftReports : GrabRead(s, hostNow)
    \/ GrabImuLock \/ GrabImuPub
    \/ GrabMagElse \/ GrabEnvElse \/ GrabCamElse

DriftSpec == DriftInit /\ [][DriftNext]_vars

\* ----------------------------------------------- the snapshot specification
\* one worker publishing several samples and one consumer thread polling the IMU cell
SnapInit == InitWith({1}, {}, 0, 625)

SnapNext ==
    \/ ctl_op = "none" /\ InitOpen(NoSerial)
    \/ StartCapture(TRUE)
    \/ GrabStart
    \/ GrabLoop
    \/ nSamples < MaxSamples /\ \E s \in PollReports : GrabRead(s, 0)
    \/ Publisher
    \/ PollCall(1, "IMU", 0)
    \/ PollWait(1)
    \/ PollTake(1)

SnapSpec == SnapInit /\ [][SnapNext]_vars

\* ------------------------------------------------ the timeout specification
\* consumer threads polling every cell, with timeouts around the floor of 100 us, while
\* nothing is published
Timeouts == {0, 95, 100, 250}

TimeoutInit == InitWith({1}, {}, 0, 625)

TimeoutNext ==
    \/ \E c \in Consumers, m \in Modalities, t \in Timeouts : PollCall(c, m, t)
    \/ \E c \in Consumers : PollWait(c)

TimeoutSpec == TimeoutInit /\ [][TimeoutNext]_vars

\* ------------------------------------------------ the restart specification
\* init() / reset() cycles on a device with sync capabilities that flags a frame sync
\* edge on every sample
RestartInit == InitWith({1}, {}, 0, 625)

RestartNext ==
    \/ w_pc = "none" /\ InitOpen(NoSerial)
    \/ StartCapture(TRUE)
    \/ ResetStop("reset")
    \/ ResetJoin
    \/ ResetDisable
    \/ ResetClose
    \/ GrabStart
    \/ GrabLoop
    \/ GrabReadBad(ShortRead)
    \/ nSamples < MaxSamples /\ \E s \in DriftReports : GrabRead(s, hostNow)
    \/ GrabImuLock \/ GrabImuPub
    \/ GrabMagElse \/ GrabEnvElse \/ GrabCamElse

RestartSpec == RestartInit /\ [][RestartNext]_vars

\* --------------------------------------------------- the ping specification
\* one worker whose loop iterations are counted, on reads of every kind
PingInit == InitWith({1}, {}, 0, 625)

PingNext ==
    \/ ctl_op = "none" /\ InitOpen(NoSerial)
    \/ StartCapture(TRUE)
    \/ GrabStart
    \/ iterations < MaxIterations /\ GrabLoopObserved
    \/ \E s \in {ShortRead, BadIdRead} : GrabReadBad(s)
    \/ nSamples < MaxClockSamples /\ \E s \in ClockReports : GrabRead(s, 0)
    \/ GrabImuLock \/ GrabImuPub
    \/ GrabMagElse \/ GrabEnvElse \/ GrabCamElse

PingSpec == PingInit /\ [][PingNext]_vars

\* --------------------------------------------------- the sync specification
\* one worker on a device that may or may not advertise sync capabilities, flag a frame
\* sync and advance its frame counter: any combination on the first samples and when the
\* pairing buffers hold size_max - 1 pairs, a flagged frame sync on the others
SyncInit == InitWith({1}, {}, 0, 625)

SyncReports ==
    {[Report(0, sc, fs, OLD_VAL, OLD_VAL, TempOk, TempOk)
          EXCEPT !.frame_sync_count = devSyncCount + inc] :
        sc \in {0, 1}, fs \in {0, 1}, inc \in {0, 1}}

SyncReportsNow ==
    IF nSamples < MaxSamples \/ Len(mSysTsQueue) = size_max - 1
    THEN SyncReports
    ELSE DriftReports

SyncNext ==
    \/ ctl_op = "none" /\ InitOpen(NoSerial)
    \/ StartCapture(TRUE)
    \/ EnableSync
    \/ GrabStart
    \/ GrabLoop
    \/ nSamples < MaxSyncSamples /\ \E s \in SyncReportsNow : GrabRead(s, hostNow)
    \/ GrabImuLock \/ GrabImuPub
    \/ GrabMagElse \/ GrabEnvElse \/ GrabCamElse

SyncSpec == SyncInit /\ [][SyncNext]_vars

\* ------------------------------------------------- the window specification
\* drift updates over several windows of size_max pairs: the device flags a frame sync
\* on every sample, the host clock may change its rate once, in the middle of a window,
\* and the application may go through one reset() / init() cycle after the first update
WindowInit == InitWith({1}, {}, 0, 625)

\* the steady clock of getSteadyTs runs faster from now on
HostSpeedUp ==
    /\ w_pc = "read"
    /\ hostRate = 625
    /\ Len(mSysTsQueue) = SpeedUpAt
    /\ hostRate' \in {700, 1250}
    /\ UNCHANGED <<ctlVars, facadeVars, mStopCapture, cellVars, alignerVars, mVideoPtr,
                   workerVars, consVars, served, hidVars, devTick, devSyncCount, nSamples,
                   hostNow, loopVars>>

WindowNext ==
    \/ w_pc = "none" /\ InitOpen(NoSerial)
    \/ StartCapture(TRUE)
    \/ EnableSync
    \/ w_pc = "read" /\ mNTPAdjustedCount = 1 /\ mSysTsQueue = <<>> /\ ResetStop("reset")
    \/ ResetJoin
    \/ ResetDisable
    \/ ResetClose
    \/ GrabStart
    \/ GrabLoop
    \/ HostSpeedUp
    \/ mNTPAdjustedCount < MaxPasses /\ \E s \in DriftReports : GrabRead(s, hostNow)
    \/ GrabImuLock \/ GrabImuPub
    \/ GrabMagElse \/ GrabEnvElse \/ GrabCamElse

WindowSpec == WindowInit /\ [][WindowNext]_vars

\* ------------------------------------- the camera temperature specification
\* one worker publishing several samples, some of which do not qualify for the camera
\* temperature cell, and one consumer thread polling that cell
CamInit == InitWith({1}, {}, 0, 625)

CamReports ==
    {Report(0, 0, 0, NEW_VAL, NEW_VAL, TempOk, TempOk),
     Report(0, 0, 0, OLD_VAL, OLD_VAL, TempOk, TempOk)}

CamNext ==
    \/ ctl_op = "none" /\ InitOpen(NoSerial)
    \/ StartCapture(TRUE)
    \/ GrabStart
    \/ GrabLoop
    \/ nSamples < MaxSamples /\ \E s \in CamReports : GrabRead(s, 0)
    \/ Publisher
    \/ PollCall(1, "CamTemp", 0)
    \/ PollWait(1)
    \/ PollTake(1)

CamSpec == CamInit /\ [][CamNext]_vars

\* ------------------------------------------------------------- properties
\* C1: every IMU publication carries a timestamp that is not below the timestamp of the
\* IMU publication before it.
C1_ImuTimestampMonotone ==
    [][(w_pc = "imu_pub" /\ w_pc' = "mag") =>
        mLastData'["IMU"].timestamp >= mLastData["IMU"].timestamp]_vars

\* C2 as stated: in every reachable state the drift multiplier lies in [0.8, 1.2].
C2_ScaleInClamp == RLeq(<<4, 5>>, mNTPTsScaling) /\ RLeq(mNTPTsScaling, <<6, 5>>)

\* C2 amended: the clamp bounds the factor of each drift update, so after k drift updates
\* the drift multiplier lies in [0.8^k, 1.2^k].
C2_ScaleInCompoundedClamp ==
    /\ RLeq(RPow(<<4, 5>>, mNTPAdjustedCount), mNTPTsScaling)
    /\ RLeq(mNTPTsScaling, RPow(<<6, 5>>, mNTPAdjustedCount))

\* two drift updates have compounded to a multiplier above 1.2
C2_Compounded == mNTPAdjustedCount = 2 /\ RLess(<<6, 5>>, mNTPTsScaling)

\* C3: while the worker has not yet processed a sample with imu_not_valid == 0
\* (mFirstImuData still set), it is in no publishing step and no cell is fresh.
C3_NothingBeforeBootstrap ==
    (w_pc \notin {"none", "start", "exited", "crashed"} /\ mFirstImuData)
        => (w_pc \in {"loop", "read"} /\ \A m \in Modalities : ~mNewData[m])

\* C4: a reset() that has set the stop flag eventually sees the worker leave its loop,
\* and returns.
C4_ResetReturns == (ctl_pc = "reset_join") ~> (w_pc \in {"none", "exited"} /\ ctl_pc = "idle")

\* C5: between two consecutive publications of a modality at most one getLast*Data call
\* on it returns a record.
C5_OnePollPerPublication == \A m \in Modalities : served[m] <= 1

\* C6: a poll entered after reset() has returned, with no init() since, returns nullptr.
C6_NullAfterReset ==
    \A c \in Consumers : (c_post[c] /\ c_pc[c] = "idle") => c_ret[c] # "ptr"

\* C7: a handle that is open is the one the facade holds (none is lost, so each is closed
\* once); a closed handle received the stream-disable report last; the controlling thread
\* issues its HID calls (stream reports, close) only while no worker is running; a running
\* worker never holds a closed handle.
C7_HandleDiscipline ==
    /\ \A h \in Handles : hidState[h].st = "open" => h = mDevHandle
    /\ \A h \in Handles : hidState[h].st = "closed" => hLastReport[h] = "disable"
    /\ ctl_pc \in {"init_start", "reset_disable", "reset_close"} => ~WorkerRunning
    /\ (WorkerRunning /\ mDevHandle # 0) => hidState[mDevHandle].st = "open"

\* C8: whenever no init()/reset() call is in progress, a worker thread exists iff
\* mInitialized is true.
C8_WorkerIffInitialized ==
    (Alive /\ ctl_pc \in {"idle", "destroyed"}) => (mInitialized <=> w_pc # "none")

\* the lowest serial of a non-empty set of serials
Lowest(S) == CHOOSE k \in S : \A x \in S : k <= x

\* the requested serial is absent or busy, or no serial is requested and none is attached
CannotOpen(sn) ==
    \/ sn # NoSerial /\ (sn \notin attached \/ sn \in busy)
    \/ sn = NoSerial /\ attached = {}

\* C9: an init() whose device cannot be opened returns false and changes neither
\* mInitialized, nor the worker, nor the reports sent; init(-1) with a non-empty
\* enumeration whose lowest serial is free opens that serial.
C9_InitOpenFailure ==
    [][\A sn \in Serials \cup {NoSerial} :
        InitOpen(sn) =>
            /\ CannotOpen(sn) =>
                  /\ ctl_ret' = FALSE /\ ctl_pc' = "idle"
                  /\ UNCHANGED <<mInitialized, w_pc, hLastReport>>
            /\ (sn = NoSerial /\ attached # {} /\ Lowest(attached) \notin busy) =>
                  /\ mDevHandle' # 0
                  /\ hidState'[mDevHandle'].sn = Lowest(attached)]_vars

\* C11: once the worker has published the IMU record of a post-bootstrap sample and until
\* it reads the next report, the IMU cell holds valid == (imu_not_valid == 0) and
\* sync == frame_sync of that sample.
C11_ImuRecordOfSample ==
    (~mFirstImuData /\ w_pc \in {"mag", "mag_pub", "env", "env_pub", "cam", "cam_pub"}) =>
        /\ mLastData["IMU"].valid = (data.imu_not_valid = 0)
        /\ mLastData["IMU"].sync = data.frame_sync

\* C12: on a post-bootstrap sample the worker always publishes the IMU cell, publishes
\* the magnetometer cell iff mag_valid == NEW and the environmental cell iff
\* env_valid == NEW; a cell that is not published keeps its fresh flag.
C12_ModalityGates ==
    [][(~mFirstImuData /\ w_pc' # w_pc) =>
        /\ (w_pc = "read" /\ nSamples' # nSamples) => w_pc' = "imu"
        /\ w_pc = "imu" => w_pc' = "imu_pub"
        /\ w_pc = "imu_pub" => (w_pc' = "mag" /\ mNewData'["IMU"])
        /\ w_pc = "mag" =>
              IF data.mag_valid = NEW_VAL THEN w_pc' = "mag_pub"
              ELSE w_pc' = "env" /\ mNewData'["Mag"] = mNewData["Mag"]
        /\ w_pc = "mag_pub" => (w_pc' = "env" /\ mNewData'["Mag"])
        /\ w_pc = "env" =>
              IF data.env_valid = NEW_VAL THEN w_pc' = "env_pub"
              ELSE w_pc' = "cam" /\ mNewData'["Env"] = mNewData["Env"]
        /\ w_pc = "env_pub" => (w_pc' = "cam" /\ mNewData'["Env"])]_vars

\* a post-bootstrap sample with mag_valid = INVALID and env_valid = NEW has made the IMU
\* and environmental cells fresh and left the magnetometer cell not fresh
C12_InvalidMagNewEnv ==
    /\ w_pc = "cam" /\ ~mFirstImuData
    /\ data.mag_valid = INVALID_VAL /\ data.env_valid = NEW_VAL
    /\ mNewData["IMU"] /\ mNewData["Env"] /\ ~mNewData["Mag"]

\* the worker's position at which it stores and flags the record of modality m
PubPc(m) ==
    CASE m = "IMU" -> "imu_pub" [] m = "Mag" -> "mag_pub"
      [] m = "Env" -> "env_pub" [] m = "CamTemp" -> "cam_pub"

\* the step is the worker's publish of modality m
PublishStep(m) == w_pc = PubPc(m) /\ w_pc' # w_pc

\* the step is the return of a successful poll of modality m
TakeStep(m) ==
    \E c \in Consumers :
        c_pc[c] = "take" /\ c_mod[c] = m /\ c_pc'[c] = "idle" /\ c_ret'[c] = "ptr"

C14_TimeoutWithinGranularity ==
    \A c \in Consumers :
        (c_pc[c] = "idle" /\ c_ret[c] = "null") =>
            /\ slept[c] - c_tmo[c] <= Granularity(c_mod[c])
            /\ c_tmo[c] - slept[c] <= Granularity(c_mod[c])

\* C15: when init() has returned on a device it opened, whether or not the stream-enable
\* report succeeded, the acquisition worker is running.
C15_AcquisitionSurvivesReportFailure ==
    (Alive /\ ctl_pc = "idle" /\ ctl_op = "init" /\ mDevHandle # 0) => WorkerRunning

\* C16: an iteration whose read delivers no full report (short read or wrong report id)
\* leaves every cell and the whole aligner state unchanged, switches the handle to
\* blocking mode and takes the worker back to the loop test.
C16_BadReadChangesNothing ==
    [][(w_pc = "read" /\ w_pc' # "read" /\ nSamples' = nSamples) =>
        /\ UNCHANGED <<cellVars, alignerVars, rel_mcu_ts, current_data_ts>>
        /\ hidState'[mDevHandle].mode = "blocking"
        /\ w_pc' = "loop"]_vars

\* a bad read arrived after the worker published a sample and was survived
C16_BadReadSurvived ==
    /\ w_pc = "loop" /\ ~mStopCapture
    /\ hidState[mDevHandle].mode = "blocking"
    /\ mNewData["IMU"] /\ rel_mcu_ts > 0

\* C17: a ping is sent at the start of iterations 401, 801, ... of the worker's loop and
\* at no other iteration: after n iterations have begun, (n - 1) div 400 pings were sent.
C17_PingEvery400 == pings = Max(iterations - 1, 0) \div PING_INTERVAL

\* the second ping has been sent, at the start of iteration 801
C17_SecondPing == pings = 2 /\ iterations = 2 * PING_INTERVAL + 1 /\ nSamples > 0

\* C18: a worker that has started and has not yet processed a full report finds all four
\* cells not fresh and the aligner in its initial state.
C18_WorkerStartsFromInitialState ==
    (w_pc \in {"loop", "read"} /\ mFirstImuData) =>
        /\ \A m \in Modalities : ~mNewData[m]
        /\ rel_mcu_ts = 0
        /\ mNTPTsScaling = <<1, 1>>
        /\ mNTPAdjustedCount = 0
        /\ mLastFrameSyncCount = 0
        /\ mSysTsQueue = <<>> /\ mMcuTsQueue = <<>>

\* C19: the record a consumer got from a successful poll keeps the content it had when
\* the poll returned.
C19_ReturnedRecordStable ==
    \A c \in Consumers :
        (c_pc[c] = "idle" /\ c_ret[c] = "ptr") => mLastData[c_mod[c]] = c_seen[c]

\* C20: a step of the worker that changes the record or the fresh flag of a cell is taken
\* while the worker holds the mutex of that cell.
C20_WritesUnderLock ==
    [][\A m \in Modalities :
        (w_pc' # w_pc /\ (mLastData'[m] # mLastData[m] \/ mNewData'[m] # mNewData[m]))
            => mMutex[m] = "worker"]_vars

\* C10: on a post-bootstrap sample the worker goes on to publish the camera temperatures
\* iff env_valid == NEW and neither camera temperature is TEMP_NOT_VALID.
C10_CamTempGate ==
    [][(w_pc = "cam" /\ w_pc' # "cam" /\ ~mFirstImuData) =>
        (w_pc' = "cam_pub" <=>
            /\ data.env_valid = NEW_VAL
            /\ data.temp_cam_left # TEMP_NOT_VALID
            /\ data.temp_cam_right # TEMP_NOT_VALID)]_vars

\* C21: on every post-bootstrap sample rel_mcu_ts does not decrease and the raw delta
\* mcu_ts_nsec - mLastMcuTs is the MCU time elapsed since the sample before it (the ticks
\* counted modulo the counter's width, times TS_SCALE), also across a wrap of the counter.
C21_DeltaIsElapsedMcuTime ==
    [][(w_pc = "read" /\ w_pc' = "imu") =>
        /\ rel_mcu_ts' >= rel_mcu_ts
        /\ U64Sub(mLastMcuTs', mLastMcuTs) =
               McuTsNsec((data'.timestamp - data.timestamp) % TickMod)]_vars

\* the tick of the first report the device delivered
FirstTick == (devTick - nSamples * TickStep) % TickMod

\* C22: on a post-bootstrap sample rel_mcu_ts grows by the raw delta times the
\* mNTPTsScaling in force when the sample arrived, the sample's timestamp is
\* (mStartSysTs - mSyncOffset) + rel_mcu_ts, and that timestamp is the one published; while
\* no drift update has happened (scale 1, offset 0) the published timestamp is
\* mStartSysTs + (mcu_ts_nsec - mcu_ts_nsec of the bootstrap sample), e.g. start + 1000000
\* and start + 2000000 for the ticks 1000000, 1025600, 1051200.
C22_TimestampIsStartPlusRel ==
    [][/\ (w_pc = "read" /\ w_pc' = "imu") =>
            LET delta == U64Sub(McuTsNsec(data'.timestamp), mLastMcuTs)
            IN  /\ rel_mcu_ts' =
                       U64(rel_mcu_ts + MulDivFloor(delta, mNTPTsScaling[1], mNTPTsScaling[2]))
                /\ current_data_ts' = U64((mStartSysTs - mSyncOffset) + rel_mcu_ts')
       /\ (w_pc = "imu_pub" /\ w_pc' = "mag") =>
            /\ mLastData'["IMU"].timestamp = current_data_ts
            /\ mNTPAdjustedCount = 0 =>
                   mLastData'["IMU"].timestamp =
                       U64(mStartSysTs + U64Sub(McuTsNsec(data.timestamp), McuTsNsec(FirstTick)))
       /\ McuTsNsec(1025600) - McuTsNsec(1000000) = 1000000
       /\ McuTsNsec(1051200) - McuTsNsec(1000000) = 2000000]_vars

\* a sample was published while the drift multiplier was not 1
C22_PublishedUnderDrift ==
    /\ w_pc = "mag"
    /\ mNTPTsScaling # <<1, 1>>
    /\ Len(mSysTsQueue) > 0
    /\ mLastData["IMU"].timestamp = U64((mStartSysTs - mSyncOffset) + rel_mcu_ts)

\* C23: on a post-bootstrap sample a pair (steady host time, aligned timestamp) is
\* appended to mSysTsQueue / mMcuTsQueue iff sync_capabilities != 0 and
\* mLastFrameSyncCount != 0 and (frame_sync != 0 or frame_sync_count >
\* mLastFrameSyncCount), the 50th pair emptying both queues; the queues always have the
\* same length, at most size_max; and mLastFrameSyncCount becomes the sample's
\* frame_sync_count.
C23_PairAppendedIffSyncEdge ==
    [][/\ Len(mSysTsQueue') = Len(mMcuTsQueue')
       /\ Len(mSysTsQueue') <= size_max
       /\ (w_pc = "read" /\ w_pc' = "imu") =>
            /\ mLastFrameSyncCount' = data'.frame_sync_count
            /\ IF /\ data'.sync_capabilities # 0
                  /\ mLastFrameSyncCount # 0
                  /\ (data'.frame_sync # 0 \/ data'.frame_sync_count > mLastFrameSyncCount)
               THEN IF Len(mSysTsQueue) = size_max - 1
                    THEN mSysTsQueue' = <<>> /\ mMcuTsQueue' = <<>>
                    ELSE /\ mSysTsQueue' = Append(mSysTsQueue, hostNow')
                         /\ mMcuTsQueue' = Append(mMcuTsQueue, current_data_ts')
               ELSE UNCHANGED <<mSysTsQueue, mMcuTsQueue>>]_vars

\* a pair was appended for a sample whose frame counter advanced without a flagged sync
C23_PairOnCounterAdvance ==
    /\ w_pc = "imu"
    /\ data.sync_capabilities # 0 /\ data.frame_sync = 0
    /\ Len(mSysTsQueue) > 0
    /\ mMcuTsQueue[Len(mMcuTsQueue)] = current_data_ts
    /\ mSysTsQueue[Len(mSysTsQueue)] = hostNow

\* lines 359-377: this step reads the sample that appends the 50th pair
FiftiethPair ==
    /\ w_pc = "read" /\ w_pc' # "read"
    /\ Len(mSysTsQueue) = size_max - 1
    /\ data'.sync_capabilities # 0
    /\ mLastFrameSyncCount # 0
    /\ (data'.frame_sync # 0 \/ data'.frame_sync_count > mLastFrameSyncCount)

\* C24: a step that does not append the 50th pair to the pairing buffers leaves
\* mNTPTsScaling, mNTPAdjustedCount and mSyncOffset unchanged, however many sync edges
\* below size_max it has counted.
C24_UnchangedBelowWindow ==
    [][~FiftiethPair => UNCHANGED <<mNTPTsScaling, mNTPAdjustedCount, mSyncOffset>>]_vars

\* 49 pairs of a host clock running fast are buffered and the multiplier is still 1
C24_FortyNinePairsNoChange ==
    /\ Len(mSysTsQueue) = size_max - 1
    /\ hostRate # 625
    /\ mNTPAdjustedCount = 0
    /\ mNTPTsScaling = <<1, 1>>

\* C25: the step that appends the 50th pair computes scale = (host[49] - host[fi]) /
\* (mcu[49] - mcu[fi]) over the buffered pairs, fi = 25 if mNTPAdjustedCount <= 3 before
\* the update and fi = 5 otherwise, clamps it into [0.8, 1.2], multiplies mNTPTsScaling by
\* it, empties both queues and increments mNTPAdjustedCount.
C25_DriftUpdate ==
    [][(FiftiethPair /\ w_pc' = "imu") =>
        LET host == Append(mSysTsQueue, hostNow')
            mcu == Append(mMcuTsQueue, current_data_ts')
            fi == IF mNTPAdjustedCount <= 3 THEN 25 ELSE 5
            dh == host[49 + 1] - host[fi + 1]
            dm == mcu[49 + 1] - mcu[fi + 1]
            scale == IF dh * 5 > dm * 6 THEN <<6, 5>>
                     ELSE IF dh * 5 < dm * 4 THEN <<4, 5>>
                     ELSE RNorm(<<dh, dm>>)
        IN  /\ dm > 0
            /\ mNTPTsScaling' = RMul(mNTPTsScaling, scale)
            /\ mSysTsQueue' = <<>> /\ mMcuTsQueue' = <<>>
            /\ mNTPAdjustedCount' = mNTPAdjustedCount + 1]_vars

\* the fifth drift update (fi = 5) saw the host clock change its rate before the 25th pair
\* of its window: the multiplier is neither unchanged (fi = 25 would see a steady ratio)
\* nor clamped
C25_LateWindowUsed ==
    /\ mNTPAdjustedCount = 5
    /\ hostRate = 700
    /\ mNTPTsScaling \notin {<<1, 1>>, <<28, 25>>, <<6, 5>>, <<4, 5>>}

\* C26: mSyncOffset, offset_sum and count change only on a drift update; the first and
\* second of three drift updates add (current_data_ts - video last-frame timestamp) to
\* offset_sum and count them, the third adds the integer average of the three
\* differences to mSyncOffset and zeroes offset_sum and count; no step of reset(), init()
\* or of a worker's start-up touches them (in WindowSpec the video collaborator's last
\* frame carries the host time before the sample).
C26_OffsetEveryThirdUpdate ==
    [][/\ ~FiftiethPair => UNCHANGED <<mSyncOffset, offset_sum, count>>
       /\ (FiftiethPair /\ w_pc' = "imu") =>
            LET diff == ToI64(current_data_ts') - ToI64(hostNow)
            IN  IF count = 2
                THEN /\ mSyncOffset' = mSyncOffset + I64Div(offset_sum + diff, 3)
                     /\ offset_sum' = 0
                     /\ count' = 0
                ELSE /\ mSyncOffset' = mSyncOffset
                     /\ offset_sum' = offset_sum + diff
                     /\ count' = count + 1]_vars

\* the offset was re-aligned by the second worker at the process's third drift update,
\* the first of which the first worker made before reset()
C26_ThirdUpdateAcrossReset ==
    /\ mDevHandle = 2
    /\ mNTPAdjustedCount = 3
    /\ count = 0 /\ offset_sum = 0
    /\ mSyncOffset # 0

\* C27: whenever the worker reads the sample that appends the 50th pair, and so executes
\* a drift update that reads mVideoPtr->mLastFrame.timestamp, the video reference has
\* been installed.
C27_DriftUpdateHasVideo ==
    [][FiftiethPair => mVideoPtr]_vars

\* C28: the camera temperature record a consumer holds from a successful poll has
\* valid == true and temperatures that are not TEMP_NOT_VALID, whatever the worker has
\* done since it was published.
C28_PolledCamTempValid ==
    \A c \in Consumers :
        (c_pc[c] = "idle" /\ c_ret[c] = "ptr" /\ c_mod[c] = "CamTemp") =>
            /\ mLastData["CamTemp"].valid = TRUE
            /\ mLastData["CamTemp"].temp_left # TEMP_NOT_VALID
            /\ mLastData["CamTemp"].temp_right # TEMP_NOT_VALID

=============================================================================
